---------------------------- MODULE Spec2Model ----------------------------
(***************************************************************************)
(* Model of the chat endpoint of ai-gateway-chatbot-gpt-5:                 *)
(*   src/src/app/api/chat/route.ts  (POST, queryRAGSystem,                 *)
(*       buildSystemPrompt, buildNoAnswerPrompt, buildContextFromSources,  *)
(*       convertToRealFIFAUrl)                                             *)
(*   src/unnamed/part_001           (the variant of the same endpoint      *)
(*       whose queryRAGSystem returns the search body unchanged)           *)
(*                                                                         *)
(* JavaScript strings are TLA+ strings; the string methods the code uses   *)
(* (includes, toLowerCase, trim, join, template literals) are computed     *)
(* character by character.  An optional value (undefined / null / absent   *)
(* field) is a sequence of length 0 or 1.                                  *)
(***************************************************************************)
EXTENDS Integers, Sequences, FiniteSets, TLC

None == <<>>
Some(v) == <<v>>
IsSome(o) == Len(o) = 1
Get(o) == o[1]

(***************************************************************************)
(* String primitives                                                       *)
(***************************************************************************)

\* k, whose first character is c, occurs in s at position i
OccursAt(s, k, c, i) == SubSeq(s, i, i) = c /\ SubSeq(s, i, i + Len(k) - 1) = k

\* the positions of s at which k occurs, from position from on
Occurrences(s, k, from) ==
    LET c == SubSeq(k, 1, 1)
    IN  {i \in from..(Len(s) - Len(k) + 1) : OccursAt(s, k, c, i)}

\* String.prototype.includes
Includes(s, k) == k = "" \/ Occurrences(s, k, 1) # {}

\* position of the first occurrence of k in s at or after position from; 0 when absent
IndexOfFrom(s, k, from) ==
    LET hits == Occurrences(s, k, from)
    IN  IF hits = {} THEN 0 ELSE CHOOSE i \in hits : \A j \in hits : i <= j

\* number of occurrences of k in s
CountOf(s, k) == Cardinality(Occurrences(s, k, 1))

UpperChars == "ABCDEFGHIJKLMNOPQRSTUVWXYZÁ"
LowerChars == "abcdefghijklmnopqrstuvwxyzá"

LowerChar(c) ==
    LET hits == {i \in 1..Len(UpperChars) : SubSeq(UpperChars, i, i) = c}
    IN  IF hits = {} THEN c
        ELSE LET i == CHOOSE j \in hits : TRUE IN SubSeq(LowerChars, i, i)

RECURSIVE ToLowerCase(_)
\* String.prototype.toLowerCase
ToLowerCase(s) ==
    IF s = "" THEN ""
    ELSE LowerChar(SubSeq(s, 1, 1)) \o ToLowerCase(SubSeq(s, 2, Len(s)))

IsSpace(c) == c \in {" ", "\n", "\t", "\r"}

RECURSIVE TrimStart(_)
TrimStart(s) ==
    IF s # "" /\ IsSpace(SubSeq(s, 1, 1)) THEN TrimStart(SubSeq(s, 2, Len(s))) ELSE s

RECURSIVE TrimEnd(_)
TrimEnd(s) ==
    IF s # "" /\ IsSpace(SubSeq(s, Len(s), Len(s)))
    THEN TrimEnd(SubSeq(s, 1, Len(s) - 1)) ELSE s

\* String.prototype.trim
Trim(s) == TrimEnd(TrimStart(s))

RECURSIVE Join(_, _)
\* Array.prototype.join on an array of strings
Join(parts, sep) ==
    IF Len(parts) = 0 THEN ""
    ELSE IF Len(parts) = 1 THEN parts[1]
    ELSE parts[1] \o sep \o Join(Tail(parts), sep)

\* decimal rendering of a small index inside a template literal
Digits == <<"0", "1", "2", "3", "4", "5", "6", "7", "8", "9">>
RECURSIVE NumToString(_)
NumToString(n) ==
    IF n < 10 THEN Digits[n + 1]
    ELSE NumToString(n \div 10) \o Digits[(n % 10) + 1]


(***************************************************************************)
(* Prompt Assembler: buildNoAnswerPrompt, buildContextFromSources,         *)
(* buildSystemPrompt (identical in route.ts and part_001)                  *)
(***************************************************************************)

\* A RAGDocument is [url, title, content, fetched_at : STRING].
\* A RAGResponse is [documents : Option(Seq(RAGDocument)), has_results : Option(BOOLEAN)];
\* a RAGResponse | null is Option(RAGResponse).

buildNoAnswerPrompt ==
    "You must respond with exactly this message:\n\n"
    \o "\"I don't know based on current fifa.com content I have indexed.\"\n\n"
    \o "Then suggest the user visit fifa.com directly for the most current "
    \o "information about FIFA events and tickets."

\* one element of contextParts: the template literal of the map callback
SourceBlock(doc, index) ==
    "[Source " \o NumToString(index + 1) \o "] " \o doc.title \o "\n"
    \o "Content: " \o doc.content \o "\n"
    \o "URL: " \o doc.url \o "\n"
    \o "Last indexed: " \o doc.fetched_at

SourceSeparator == "\n\n---\n\n"

\* a plausible slip: the blocks joined last-to-first
buildContextFromSourcesReversed(documents) ==
    Join([i \in 1..Len(documents) |->
            SourceBlock(documents[Len(documents) + 1 - i], i - 1)], SourceSeparator)

buildContextFromSources(documents) ==
    Join([i \in 1..Len(documents) |-> SourceBlock(documents[i], i - 1)], SourceSeparator)

StrictPromptHead ==
    "You are a FIFA.com assistant chatbot. Your role is to help visitors find accurate "
    \o "information about FIFA events, tickets, and official content.\n\n"
    \o "STRICT GUIDELINES:\n"
    \o "- Answer ONLY based on the retrieved FIFA.com content provided below\n"
    \o "- Always include citations and sources for your answers\n"
    \o "- If the context doesn't fully answer the question, acknowledge this and "
    \o "provide what information you can\n"
    \o "- Focus on ticket sales, World Cup information, FIFA events, and official policies\n"
    \o "- Maintain a helpful, professional tone\n"
    \o "- Provide specific details when available (dates, prices, procedures)\n"
    \o "- Never hallucinate or provide information not found in the retrieved context\n\n"
    \o "DOMAIN RESTRICTION:\n"
    \o "- Only reference content from fifa.com/en and its subpages\n"
    \o "- Do not provide information from other sources or your training data\n\n"
    \o "RETRIEVED CONTEXT FROM FIFA.COM:\n"

StrictPromptTail(userQuery) ==
    "\n\nBased on this FIFA.com content, please answer the user's question: \""
    \o userQuery \o "\""

\* !ragResponse || !ragResponse.has_results || !ragResponse.documents?.length
IsNoAnswer(ragResponse) ==
    \/ ~IsSome(ragResponse)
    \/ ~IsSome(Get(ragResponse).has_results)
    \/ ~Get(Get(ragResponse).has_results)
    \/ ~IsSome(Get(ragResponse).documents)
    \/ Len(Get(Get(ragResponse).documents)) = 0

DocumentsOf(ragResponse) ==
    IF IsSome(ragResponse) /\ IsSome(Get(ragResponse).documents)
    THEN Get(Get(ragResponse).documents) ELSE <<>>

\* a plausible slip: the has_results test left out of the guard
buildSystemPromptIgnoringFlag(ragResponse, userQuery) ==
    IF DocumentsOf(ragResponse) = <<>> THEN buildNoAnswerPrompt
    ELSE StrictPromptHead \o buildContextFromSources(DocumentsOf(ragResponse))
         \o StrictPromptTail(userQuery)

\* a plausible slip: a null result treated as an empty context, not as no answer
buildSystemPromptNullAsEmpty(ragResponse, userQuery) ==
    IF IsSome(ragResponse) /\ IsNoAnswer(ragResponse) THEN buildNoAnswerPrompt
    ELSE StrictPromptHead \o buildContextFromSources(DocumentsOf(ragResponse))
         \o StrictPromptTail(userQuery)

buildSystemPrompt(ragResponse, userQuery) ==
    IF IsNoAnswer(ragResponse) THEN buildNoAnswerPrompt
    ELSE StrictPromptHead \o buildContextFromSources(DocumentsOf(ragResponse))
         \o StrictPromptTail(userQuery)

(***************************************************************************)
(* Content-based URL classifier: convertToRealFIFAUrl (route.ts)           *)
(***************************************************************************)

TournamentUrl == "https://fifa.com/en/tournaments/mens/worldcup/canadamexicousa2026"

\* the urlMappings table, by key
urlMappings(key) ==
    CASE key = "estadio-azteca" -> TournamentUrl \o "/stadiums/mexico-city"
      [] key = "estadio-akron" -> TournamentUrl \o "/stadiums/guadalajara"
      [] key = "estadio-bbva" -> TournamentUrl \o "/stadiums/monterrey"
      [] key = "sofi-stadium" -> TournamentUrl \o "/stadiums/los-angeles"
      [] key = "lumen-field" -> TournamentUrl \o "/stadiums/seattle"
      [] key = "grupo-d" -> TournamentUrl \o "/groups"
      [] key = "phase-groups" -> TournamentUrl \o "/groups"
      [] key = "tickets" -> TournamentUrl \o "/tickets"
      [] key = "ticketing" -> TournamentUrl \o "/tickets"
      [] key = "world-cup-2026" -> TournamentUrl
      [] key = "canada-mexico-usa" -> TournamentUrl

GenericStadiumsUrl == TournamentUrl \o "/stadiums"

\* a plausible slip: the generic stadium and the ticket rules tested before the venues
convertToRealFIFAUrlGenericFirst(docId, content) ==
    LET contentLower == ToLowerCase(content) IN
    IF Includes(contentLower, "ticket") \/ Includes(contentLower, "precio")
       \/ Includes(contentLower, "price") \/ Includes(contentLower, "usd")
    THEN urlMappings("tickets")
    ELSE IF Includes(contentLower, "stadium") \/ Includes(contentLower, "estadio")
       \/ Includes(contentLower, "capacity") \/ Includes(contentLower, "capacidad")
    THEN GenericStadiumsUrl
    ELSE IF Includes(contentLower, "estadio azteca") \/ Includes(contentLower, "87,523")
       \/ Includes(contentLower, "mexico city")
    THEN urlMappings("estadio-azteca")
    ELSE IF Includes(contentLower, "estadio akron") \/ Includes(contentLower, "49,813")
       \/ Includes(contentLower, "guadalajara")
    THEN urlMappings("estadio-akron")
    ELSE IF Includes(contentLower, "estadio bbva") \/ Includes(contentLower, "53,500")
       \/ Includes(contentLower, "monterrey")
    THEN urlMappings("estadio-bbva")
    ELSE IF Includes(contentLower, "sofi stadium") \/ Includes(contentLower, "los ángeles")
       \/ Includes(contentLower, "los angeles")
    THEN urlMappings("sofi-stadium")
    ELSE IF Includes(contentLower, "lumen field") \/ Includes(contentLower, "seattle")
    THEN urlMappings("lumen-field")
    ELSE IF Includes(contentLower, "grupo d") \/ Includes(contentLower, "group d")
    THEN urlMappings("grupo-d")
    ELSE IF Includes(contentLower, "fase de grupos") \/ Includes(contentLower, "group stage")
    THEN urlMappings("phase-groups")
    ELSE urlMappings("world-cup-2026")

convertToRealFIFAUrl(docId, content) ==
    LET contentLower == ToLowerCase(content) IN
    IF Includes(contentLower, "estadio azteca") \/ Includes(contentLower, "87,523")
       \/ Includes(contentLower, "mexico city")
    THEN urlMappings("estadio-azteca")
    ELSE IF Includes(contentLower, "estadio akron") \/ Includes(contentLower, "49,813")
       \/ Includes(contentLower, "guadalajara")
    THEN urlMappings("estadio-akron")
    ELSE IF Includes(contentLower, "estadio bbva") \/ Includes(contentLower, "53,500")
       \/ Includes(contentLower, "monterrey")
    THEN urlMappings("estadio-bbva")
    ELSE IF Includes(contentLower, "sofi stadium") \/ Includes(contentLower, "los ángeles")
       \/ Includes(contentLower, "los angeles")
    THEN urlMappings("sofi-stadium")
    ELSE IF Includes(contentLower, "lumen field") \/ Includes(contentLower, "seattle")
    THEN urlMappings("lumen-field")
    ELSE IF Includes(contentLower, "grupo d") \/ Includes(contentLower, "group d")
    THEN urlMappings("grupo-d")
    ELSE IF Includes(contentLower, "fase de grupos") \/ Includes(contentLower, "group stage")
    THEN urlMappings("phase-groups")
    ELSE IF Includes(contentLower, "ticket") \/ Includes(contentLower, "precio")
       \/ Includes(contentLower, "price") \/ Includes(contentLower, "usd")
    THEN urlMappings("tickets")
    ELSE IF Includes(contentLower, "stadium") \/ Includes(contentLower, "estadio")
       \/ Includes(contentLower, "capacity") \/ Includes(contentLower, "capacidad")
    THEN GenericStadiumsUrl
    ELSE urlMappings("world-cup-2026")

(***************************************************************************)
(* Bounds and input domains                                                *)
(***************************************************************************)

\* longest message list of a request
MaxMsgs == 2
\* longest result (or document) list in a search response body
MaxResults == 2
\* most fragments concatenated into one classifier input
MaxFrags == 2

SeqsUpTo(S, n) == UNION {[1..k -> S] : k \in 0..n}

TextPart(t) == [type |-> "text", text |-> t]
FilePart == [type |-> "file", text |-> None]

UserQuestion ==
    [role |-> "user",
     parts |-> Some(<<TextPart(Some("What are")), FilePart, TextPart(Some("ticket prices?"))>>)]
UserBlank ==
    [role |-> "user", parts |-> Some(<<TextPart(Some("")), TextPart(Some(" \n"))>>)]
UserNoParts == [role |-> "user", parts |-> None]
UserFileOnly == [role |-> "user", parts |-> Some(<<FilePart, TextPart(None)>>)]
AssistantReply ==
    [role |-> "assistant",
     parts |-> Some(<<TextPart(Some("Estadio Azteca hosts the opening match."))>>)]

MessageSet == {UserQuestion, UserBlank, UserNoParts, UserFileOnly, AssistantReply}

\* a request: whether req.json() resolves, and the messages field of the parsed body
Requests ==
    {[parses |-> FALSE, messages |-> None], [parses |-> TRUE, messages |-> None]}
    \cup {[parses |-> TRUE, messages |-> Some(ms)] : ms \in SeqsUpTo(MessageSet, MaxMsgs)}

\* results of the RAG API (route.ts): [id, text, metaText]
ResultSet ==
    {[id |-> "doc-tickets", text |-> Some("Ticket prices start at 60 USD."), metaText |-> None],
     [id |-> "doc-seattle", text |-> Some(""),
      metaText |-> Some("Lumen Field in Seattle hosts six matches.")],
     [id |-> "doc-empty", text |-> None, metaText |-> None]}

\* documents as the RAG endpoint of part_001 serves them
DocSet ==
    {[url |-> "https://fifa.com/en/tickets", title |-> "Tickets",
      content |-> "Sales phases open in 2025.", fetched_at |-> "2025-08-30T08:00:00.000Z"],
     [url |-> "https://fifa.com/en/stadiums", title |-> "Stadiums",
      content |-> "Sixteen host cities.", fetched_at |-> "2025-08-31T09:30:00.000Z"]}

HasResultsFields == {None, Some(TRUE), Some(FALSE)}

\* JSON bodies of the search response, by endpoint variant
RagApiBodies ==
    {[isNull |-> TRUE, resultsKind |-> "missing", results |-> <<>>,
      documents |-> None, has_results |-> None]}
    \cup {[isNull |-> FALSE, resultsKind |-> k, results |-> <<>>,
           documents |-> None, has_results |-> h] :
              k \in {"missing", "not_array"}, h \in HasResultsFields}
    \cup {[isNull |-> FALSE, resultsKind |-> "array", results |-> rs,
           documents |-> None, has_results |-> h] :
              rs \in SeqsUpTo(ResultSet, MaxResults), h \in HasResultsFields}

RagEndpointBodies ==
    {[isNull |-> TRUE, resultsKind |-> "missing", results |-> <<>>,
      documents |-> None, has_results |-> None]}
    \cup {[isNull |-> FALSE, resultsKind |-> "missing", results |-> <<>>,
           documents |-> d, has_results |-> h] :
              d \in {None} \cup {Some(ds) : ds \in SeqsUpTo(DocSet, MaxResults)},
              h \in HasResultsFields}

\* readings of the clock by new Date().toISOString(), in order
Times == <<"2025-09-01T10:00:00.000Z", "2025-09-01T10:00:00.001Z">>
Clocks(n) ==
    {c \in [1..n -> 1..Len(Times)] : \A i \in 1..n, j \in 1..n : i <= j => c[i] <= c[j]}

(***************************************************************************)
(* Query extraction (POST, lines 12-27)                                    *)
(***************************************************************************)

\* JavaScript truthiness of an optional string
Truthy(o) == IsSome(o) /\ Get(o) # ""

\* Array.prototype.join renders undefined elements as the empty string
TextOf(part) == IF IsSome(part.text) THEN Get(part.text) ELSE ""

\* messages[messages.length - 1]
LastMessage(messages) ==
    IF Len(messages) = 0 THEN None ELSE Some(messages[Len(messages)])

ExtractUserQuery(messages) ==
    LET lastUserMessage == LastMessage(messages) IN
    IF IsSome(lastUserMessage) /\ IsSome(Get(lastUserMessage).parts)
    THEN LET textParts == SelectSeq(Get(Get(lastUserMessage).parts),
                                    LAMBDA part : part.type = "text")
         IN  Join([i \in 1..Len(textParts) |-> TextOf(textParts[i])], " ")
    ELSE ""

\* a plausible slip: the emptiness test without trim()
ShouldRetrieveUntrimmed(query) == query # ""

\* if (userQuery.trim())
ShouldRetrieve(query) == Trim(query) # ""

(***************************************************************************)
(* Retrieval Orchestrator: queryRAGSystem                                  *)
(***************************************************************************)

\* the outcome of a call of queryRAGSystem: it throws, or returns RAGResponse | null
\* a plausible slip: the catch block rethrowing instead of returning null
queryRAGSystemRethrow == [threw |-> TRUE, value |-> None]

\* catch (error) { ...; return null; }
queryRAGSystemOnError == [threw |-> FALSE, value |-> None]

\* the callback of ragResults.results?.map (route.ts)
RagApiDocument(result, index, now) ==
    [url |-> convertToRealFIFAUrl(result.id, IF Truthy(result.text) THEN Get(result.text) ELSE ""),
     title |-> "FIFA Document " \o NumToString(index + 1),
     content |-> IF Truthy(result.text) THEN Get(result.text)
                 ELSE IF Truthy(result.metaText) THEN Get(result.metaText)
                 ELSE "No content available",
     fetched_at |-> now]

\* route.ts: from the parsed body to the return (or the catch); clock[i] is the
\* clock reading taken while result i is transformed
RagApiReturn(body, clock) ==
    IF body.isNull \/ body.resultsKind = "not_array" THEN queryRAGSystemOnError
    ELSE LET documents ==
                 IF body.resultsKind = "missing" THEN <<>>
                 ELSE [i \in 1..Len(body.results) |->
                          RagApiDocument(body.results[i], i - 1, Times[clock[i]])]
         IN  [threw |-> FALSE,
              value |-> Some([documents |-> Some(documents),
                              has_results |-> Some(Len(documents) > 0)])]

\* part_001: the parsed body is returned as it came
RagEndpointReturn(body) ==
    IF body.isNull THEN queryRAGSystemOnError
    ELSE [threw |-> FALSE,
          value |-> Some([documents |-> body.documents, has_results |-> body.has_results])]

(***************************************************************************)
(* Chat Endpoint: POST                                                     *)
(***************************************************************************)

VARIABLES
    variant,        \* "rag_api" (route.ts) or "rag_endpoint" (part_001)
    req,            \* the request
    pc,             \* the handler's position
    userQuery,      \* let userQuery
    calls,          \* the external calls issued so far, in order, with their status
    fetchBody,      \* the parsed body of the search response, once read
    ragOutcome,     \* the outcome of queryRAGSystem, once it has ended
    systemPrompt,   \* const systemPrompt, once built
    response,       \* the Response returned by POST
    clfDocId,       \* classifier run: docId
    clfContent,     \* classifier run: content
    clfUrl          \* classifier run: the URL returned

vars == <<variant, req, pc, userQuery, calls, fetchBody, ragOutcome, systemPrompt,
          response, clfDocId, clfContent, clfUrl>>

clfVars == <<clfDocId, clfContent, clfUrl>>

Variants == {"rag_api", "rag_endpoint"}

\* new Response('Internal Server Error', { status: 500 })
InternalServerError == [status |-> 500, body |-> "Internal Server Error"]

\* result.toUIMessageStreamResponse()
StreamResponse == [status |-> 200, body |-> "ui-message-stream"]

\* a plausible slip: the inner catch rethrowing
AfterInnerCatchRethrow == "outer_catch"

\* catch (embeddingError) { console.error(...) }: execution continues after the if
AfterInnerCatch == "fallback"

\* the model of the retrieval-augmented streamText call
RagModel == IF variant = "rag_api" THEN "openai/gpt-4o-mini" ELSE "gpt-5"

Call(svc, model, system, status) ==
    [svc |-> svc, model |-> model, system |-> system, status |-> status]

\* the last call, with its status replaced
Settle(status) == [calls EXCEPT ![Len(calls)].status = status]

Init ==
    /\ variant \in Variants
    /\ req \in Requests
    /\ pc = "received"
    /\ userQuery = ""
    /\ calls = <<>>
    /\ fetchBody = None
    /\ ragOutcome = None
    /\ systemPrompt = None
    /\ response = None
    /\ clfDocId = ""
    /\ clfContent = ""
    /\ clfUrl = None

\* a plausible slip: messages?.length, so that a body without messages reads as an
\* empty conversation and goes on to the unaugmented call
ReqJsonLenient ==
    /\ pc = "received"
    /\ pc' = IF ~req.parses THEN "outer_catch"
             ELSE IF IsSome(req.messages) THEN "parsed" ELSE "fallback"
    /\ UNCHANGED <<variant, req, userQuery, calls, fetchBody, ragOutcome, systemPrompt,
                   response, clfVars>>

\* await req.json(), the destructuring and messages.length
ReqJson ==
    /\ pc = "received"
    /\ pc' = IF req.parses /\ IsSome(req.messages) THEN "parsed" ELSE "outer_catch"
    /\ UNCHANGED <<variant, req, userQuery, calls, fetchBody, ragOutcome, systemPrompt,
                   response, clfVars>>

\* a plausible slip: the search started together with the embedding, not after it
ExtractQueryParallel ==
    /\ pc = "parsed"
    /\ userQuery' = ExtractUserQuery(Get(req.messages))
    /\ IF ShouldRetrieve(userQuery')
       THEN /\ calls' = calls \o <<Call("search", "", None, "pending"),
                                    Call("embedding", "openai/text-embedding-3-small",
                                         None, "pending")>>
            /\ pc' = "await_embed"
       ELSE /\ calls' = calls
            /\ pc' = "fallback"
    /\ UNCHANGED <<variant, req, fetchBody, ragOutcome, systemPrompt, response, clfVars>>

\* lines 13-35: the query is extracted; embed() is called when it is not blank
ExtractQuery ==
    /\ pc = "parsed"
    /\ userQuery' = ExtractUserQuery(Get(req.messages))
    /\ IF ShouldRetrieve(userQuery')
       THEN /\ calls' = Append(calls, Call("embedding", "openai/text-embedding-3-small",
                                           None, "pending"))
            /\ pc' = "await_embed"
       ELSE /\ calls' = calls
            /\ pc' = "fallback"
    /\ UNCHANGED <<variant, req, fetchBody, ragOutcome, systemPrompt, response, clfVars>>

\* embed() resolves; queryRAGSystem is called and issues its fetch
EmbedResolve ==
    /\ pc = "await_embed"
    /\ calls' = Append(Settle("ok"), Call("search", "", None, "pending"))
    /\ pc' = "await_fetch"
    /\ UNCHANGED <<variant, req, userQuery, fetchBody, ragOutcome, systemPrompt,
                   response, clfVars>>

\* embed() rejects: the inner catch
EmbedReject ==
    /\ pc = "await_embed"
    /\ calls' = Settle("failed")
    /\ pc' = AfterInnerCatch
    /\ UNCHANGED <<variant, req, userQuery, fetchBody, ragOutcome, systemPrompt,
                   response, clfVars>>

\* fetch() rejects (network error): the catch of queryRAGSystem
FetchReject ==
    /\ pc = "await_fetch"
    /\ calls' = Settle("network_error")
    /\ ragOutcome' = Some(queryRAGSystemOnError)
    /\ pc' = "rag_returned"
    /\ UNCHANGED <<variant, req, userQuery, fetchBody, systemPrompt, response, clfVars>>

\* fetch() resolves with a response that is not ok: throw new Error, caught
FetchNotOk ==
    /\ pc = "await_fetch"
    /\ calls' = Settle("http_error")
    /\ ragOutcome' = Some(queryRAGSystemOnError)
    /\ pc' = "rag_returned"
    /\ UNCHANGED <<variant, req, userQuery, fetchBody, systemPrompt, response, clfVars>>

\* fetch() resolves with an ok response: await response.json()
FetchOk ==
    /\ pc = "await_fetch"
    /\ pc' = "await_body"
    /\ UNCHANGED <<variant, req, userQuery, calls, fetchBody, ragOutcome, systemPrompt,
                   response, clfVars>>

\* response.json() rejects: caught
BodyReject ==
    /\ pc = "await_body"
    /\ calls' = Settle("body_error")
    /\ ragOutcome' = Some(queryRAGSystemOnError)
    /\ pc' = "rag_returned"
    /\ UNCHANGED <<variant, req, userQuery, fetchBody, systemPrompt, response, clfVars>>

\* route.ts: response.json() resolves; the results are transformed
BodyResolveRagApi ==
    /\ pc = "await_body"
    /\ variant = "rag_api"
    /\ \E body \in RagApiBodies : \E clock \in Clocks(Len(body.results)) :
          /\ fetchBody' = Some(body)
          /\ ragOutcome' = Some(RagApiReturn(body, clock))
    /\ calls' = Settle("returned")
    /\ pc' = "rag_returned"
    /\ UNCHANGED <<variant, req, userQuery, systemPrompt, response, clfVars>>

\* part_001: response.json() resolves; provenance is logged; the body is returned
BodyResolveRagEndpoint ==
    /\ pc = "await_body"
    /\ variant = "rag_endpoint"
    /\ \E body \in RagEndpointBodies :
          /\ fetchBody' = Some(body)
          /\ ragOutcome' = Some(RagEndpointReturn(body))
    /\ calls' = Settle("returned")
    /\ pc' = "rag_returned"
    /\ UNCHANGED <<variant, req, userQuery, systemPrompt, response, clfVars>>

\* lines 43-50: queryRAGSystem has ended; the system prompt is built
BuildPrompt ==
    /\ pc = "rag_returned"
    /\ IF Get(ragOutcome).threw
       THEN /\ pc' = AfterInnerCatch
            /\ systemPrompt' = systemPrompt
       ELSE /\ systemPrompt' = Some(buildSystemPrompt(Get(ragOutcome).value, userQuery))
            /\ pc' = "prompt_built"
    /\ UNCHANGED <<variant, req, userQuery, calls, fetchBody, ragOutcome, response, clfVars>>

\* lines 53-59: streamText with the system prompt, inside the inner try
StreamTextRag ==
    /\ pc = "prompt_built"
    /\ \E ok \in BOOLEAN :
          /\ calls' = Append(calls, Call("completion", RagModel, systemPrompt,
                                         IF ok THEN "ok" ELSE "failed"))
          /\ IF ok
             THEN /\ response' = Some(StreamResponse)
                  /\ pc' = "done"
             ELSE /\ response' = response
                  /\ pc' = AfterInnerCatch
    /\ UNCHANGED <<variant, req, userQuery, fetchBody, ragOutcome, systemPrompt, clfVars>>

\* lines 68-73: streamText without a system prompt, inside the outer try only
StreamTextFallback ==
    /\ pc = "fallback"
    /\ \E ok \in BOOLEAN :
          /\ calls' = Append(calls, Call("completion", "gpt-5", None,
                                         IF ok THEN "ok" ELSE "failed"))
          /\ IF ok
             THEN /\ response' = Some(StreamResponse)
                  /\ pc' = "done"
             ELSE /\ response' = response
                  /\ pc' = "outer_catch"
    /\ UNCHANGED <<variant, req, userQuery, fetchBody, ragOutcome, systemPrompt, clfVars>>

\* lines 75-78: the outer catch
OuterCatch ==
    /\ pc = "outer_catch"
    /\ response' = Some(InternalServerError)
    /\ pc' = "done"
    /\ UNCHANGED <<variant, req, userQuery, calls, fetchBody, ragOutcome, systemPrompt,
                   clfVars>>

Next ==
    \/ ReqJson
    \/ ExtractQuery
    \/ EmbedResolve
    \/ EmbedReject
    \/ FetchReject
    \/ FetchNotOk
    \/ FetchOk
    \/ BodyReject
    \/ BodyResolveRagApi
    \/ BodyResolveRagEndpoint
    \/ BuildPrompt
    \/ StreamTextRag
    \/ StreamTextFallback
    \/ OuterCatch

Spec == Init /\ [][Next]_vars

(***************************************************************************)
(* The classifier on its own: convertToRealFIFAUrl applied to contents     *)
(* assembled from keyword-bearing fragments                                *)
(***************************************************************************)

Fragments ==
    {"Estadio Azteca", "87,523", "Guadalajara", "Estadio BBVA", "Los Ángeles",
     "SoFi Stadium", "SEATTLE", "Grupo D", "Group Stage", "Ticket", "USD", "Stadium",
     "capacidad", "kickoff"}

ClassifierContents == {Join(fs, " ") : fs \in SeqsUpTo(Fragments, MaxFrags)}

DocIds == {"doc-17", "estadio-akron"}

InitClassifier ==
    /\ variant = "rag_api"
    /\ req = [parses |-> FALSE, messages |-> None]
    /\ pc = "classifier"
    /\ userQuery = ""
    /\ calls = <<>>
    /\ fetchBody = None
    /\ ragOutcome = None
    /\ systemPrompt = None
    /\ response = None
    /\ clfDocId \in DocIds
    /\ clfContent \in ClassifierContents
    /\ clfUrl = None

Classify ==
    /\ pc = "classifier"
    /\ clfUrl = None
    /\ clfUrl' = Some(convertToRealFIFAUrl(clfDocId, clfContent))
    /\ UNCHANGED <<variant, req, pc, userQuery, calls, fetchBody, ragOutcome, systemPrompt,
                   response, clfDocId, clfContent>>

NextClassifier == Classify

SpecClassifier == InitClassifier /\ [][NextClassifier]_vars

(***************************************************************************)
(* C6  URL classifier priority                                             *)
(***************************************************************************)

\* the rules in the order the claim gives them: keywords and the page of each
VenueRules ==
    <<[kws |-> {"estadio azteca", "87,523", "mexico city"},
       url |-> "https://fifa.com/en/tournaments/mens/worldcup/canadamexicousa2026/stadiums/mexico-city"],
      [kws |-> {"estadio akron", "49,813", "guadalajara"},
       url |-> "https://fifa.com/en/tournaments/mens/worldcup/canadamexicousa2026/stadiums/guadalajara"],
      [kws |-> {"estadio bbva", "53,500", "monterrey"},
       url |-> "https://fifa.com/en/tournaments/mens/worldcup/canadamexicousa2026/stadiums/monterrey"],
      [kws |-> {"sofi stadium", "los ángeles", "los angeles"},
       url |-> "https://fifa.com/en/tournaments/mens/worldcup/canadamexicousa2026/stadiums/los-angeles"],
      [kws |-> {"lumen field", "seattle"},
       url |-> "https://fifa.com/en/tournaments/mens/worldcup/canadamexicousa2026/stadiums/seattle"]>>

GroupRule ==
    [kws |-> {"grupo d", "group d", "fase de grupos", "group stage"},
     url |-> "https://fifa.com/en/tournaments/mens/worldcup/canadamexicousa2026/groups"]

TicketRule ==
    [kws |-> {"ticket", "precio", "price", "usd"},
     url |-> "https://fifa.com/en/tournaments/mens/worldcup/canadamexicousa2026/tickets"]

StadiumRule ==
    [kws |-> {"stadium", "estadio", "capacity", "capacidad"},
     url |-> "https://fifa.com/en/tournaments/mens/worldcup/canadamexicousa2026/stadiums"]

DefaultPage == "https://fifa.com/en/tournaments/mens/worldcup/canadamexicousa2026"

PriorityRules == VenueRules \o <<GroupRule, TicketRule, StadiumRule>>

RuleMatches(rule, lower) == \E k \in rule.kws : Includes(lower, k)

FirstMatchUrl(lower) ==
    LET hits == {i \in 1..Len(PriorityRules) : RuleMatches(PriorityRules[i], lower)}
    IN  IF hits = {} THEN DefaultPage
        ELSE PriorityRules[CHOOSE i \in hits : \A j \in hits : i <= j].url

MatchesVenue(lower) == \E i \in 1..Len(VenueRules) : RuleMatches(VenueRules[i], lower)

\* C6: the URL returned by convertToRealFIFAUrl is that of the first rule, in the
\* order venues (Mexico City, Guadalajara, Monterrey, Los Angeles, Seattle), group
\* stage, tickets, generic stadium, default, whose keyword occurs in the lower-cased
\* content; a venue keyword beats 'stadium' and 'ticket', and 'ticket' with 'usd'
\* and no venue or group keyword gives the tickets page.
ClassifierFirstMatchWins ==
    IsSome(clfUrl) =>
        LET lower == ToLowerCase(clfContent) IN
        /\ Get(clfUrl) = FirstMatchUrl(lower)
        /\ (MatchesVenue(lower) /\ (Includes(lower, "stadium") \/ Includes(lower, "ticket")))
              => \E i \in 1..Len(VenueRules) : Get(clfUrl) = VenueRules[i].url
        /\ (Includes(lower, "ticket") /\ Includes(lower, "usd")
              /\ ~MatchesVenue(lower) /\ ~RuleMatches(GroupRule, lower))
              => Get(clfUrl) = TicketRule.url

\* a content naming a venue and the generic word 'stadium' has been classified
ClassifierVenueAndStadiumSeen ==
    /\ IsSome(clfUrl)
    /\ Includes(ToLowerCase(clfContent), "seattle")
    /\ Includes(ToLowerCase(clfContent), "stadium")
    /\ Get(clfUrl) = VenueRules[5].url

(***************************************************************************)
(* Vocabulary of the claims about POST                                     *)
(***************************************************************************)

CallsOf(svc) == {i \in 1..Len(calls) : calls[i].svc = svc}

LastCallIsFailedCompletion ==
    /\ Len(calls) > 0
    /\ calls[Len(calls)].svc = "completion"
    /\ calls[Len(calls)].status = "failed"

\* the search response was read, and transforming it raises a TypeError
TransformFails ==
    /\ IsSome(fetchBody)
    /\ \/ Get(fetchBody).isNull
       \/ variant = "rag_api" /\ Get(fetchBody).resultsKind = "not_array"

\* the Content Fetcher call of this request has failed
SearchFailed ==
    \/ \E i \in CallsOf("search") :
          calls[i].status \in {"network_error", "http_error", "body_error"}
    \/ TransformFails

EmbeddingSucceeded == \E i \in CallsOf("embedding") : calls[i].status = "ok"

EmbeddingFailed == \E i \in CallsOf("embedding") : calls[i].status = "failed"

\* the handler is past the call of buildSystemPrompt
PastBuild == pc \in {"prompt_built", "fallback", "outer_catch", "done"}

NoAnswerSentence == "\"I don't know based on current fifa.com content I have indexed.\""

(***************************************************************************)
(* C1  a Content Fetcher failure stays inside queryRAGSystem               *)
(***************************************************************************)

\* C1: once the Content Fetcher call has failed (network error, non-success status,
\* unreadable body, or a body whose transformation throws), queryRAGSystem has
\* returned null without throwing, the handler reaches the outer catch only through
\* a failed completion call, and a finished request has invoked the completion
\* service and returned its stream unless that completion call itself failed.
FetcherFailureContained ==
    SearchFailed =>
        /\ ragOutcome = Some([threw |-> FALSE, value |-> None])
        /\ pc = "outer_catch" => LastCallIsFailedCompletion
        /\ pc = "done" =>
              /\ CallsOf("completion") # {}
              /\ \/ response = Some([status |-> 200, body |-> "ui-message-stream"])
                 \/ /\ LastCallIsFailedCompletion
                    /\ response = Some([status |-> 500, body |-> "Internal Server Error"])

\* a request whose fetch met a network error has ended with the streamed response
FetcherFailureStreamed ==
    /\ \E i \in CallsOf("search") : calls[i].status = "network_error"
    /\ pc = "done"
    /\ response = Some([status |-> 200, body |-> "ui-message-stream"])

(***************************************************************************)
(* C2  the no-answer template                                              *)
(***************************************************************************)

\* the result handed to buildSystemPrompt is null, or not flagged, or without documents
NoAnswerCase ==
    /\ IsSome(ragOutcome)
    /\ ~Get(ragOutcome).threw
    /\ LET r == Get(ragOutcome).value IN
       \/ r = None
       \/ Get(r).has_results # Some(TRUE)
       \/ Get(r).documents = None
       \/ Get(r).documents = Some(<<>>)

\* C2: whenever buildSystemPrompt was called with a null result, a result whose
\* has_results is not true, or a result with no documents, the prompt is the fixed
\* no-answer template, which holds the no-answer sentence and neither the query nor
\* the title, content or URL of any document of the result.
NoAnswerPromptExact ==
    (PastBuild /\ NoAnswerCase) =>
        /\ systemPrompt = Some(buildNoAnswerPrompt)
        /\ Includes(Get(systemPrompt), NoAnswerSentence)
        /\ ~Includes(Get(systemPrompt), userQuery)
        /\ \A i \in 1..Len(DocumentsOf(Get(ragOutcome).value)) :
              LET doc == DocumentsOf(Get(ragOutcome).value)[i] IN
              /\ ~Includes(Get(systemPrompt), doc.title)
              /\ ~Includes(Get(systemPrompt), doc.content)
              /\ ~Includes(Get(systemPrompt), doc.url)

\* buildSystemPrompt was called with has_results false and a non-empty document list
NoAnswerDespiteDocuments ==
    /\ PastBuild
    /\ NoAnswerCase
    /\ Get(ragOutcome).value # None
    /\ Get(Get(ragOutcome).value).has_results = Some(FALSE)
    /\ Len(DocumentsOf(Get(ragOutcome).value)) > 0
    /\ systemPrompt = Some(buildNoAnswerPrompt)

(***************************************************************************)
(* C3  a Content Fetcher failure takes the no-answer path                  *)
(***************************************************************************)

\* the fetcher answered with an empty result list
ZeroResults ==
    /\ IsSome(fetchBody)
    /\ ~TransformFails
    /\ IF variant = "rag_api"
       THEN Get(fetchBody).resultsKind = "missing" \/ Get(fetchBody).results = <<>>
       ELSE Get(fetchBody).documents = Some(<<>>)

\* every completion call without a system prompt directly follows a failed
\* completion call that carried the no-answer template
UnaugmentedOnlyAfterFailedNoAnswer ==
    \A i \in CallsOf("completion") :
        calls[i].system = None =>
            /\ i > 1
            /\ calls[i - 1].svc = "completion"
            /\ calls[i - 1].status = "failed"
            /\ calls[i - 1].system = Some(buildNoAnswerPrompt)

\* C3: with a non-empty query and a successful embedding, a failed Content Fetcher
\* call leads to prompt-built with the no-answer template, the same prompt as for
\* zero results; the completion service is invoked with that template as system
\* prompt, and without a system prompt only after that invocation itself failed.
FetcherFailureNoAnswerPath ==
    /\ (EmbeddingSucceeded /\ SearchFailed) =>
          /\ pc \notin {"await_fetch", "await_body", "rag_returned"} =>
                systemPrompt = Some(buildNoAnswerPrompt)
          /\ UnaugmentedOnlyAfterFailedNoAnswer
          /\ pc = "done" =>
                \E i \in CallsOf("completion") : calls[i].system = Some(buildNoAnswerPrompt)
    /\ (ZeroResults /\ PastBuild) => systemPrompt = Some(buildNoAnswerPrompt)

\* a request whose fetch returned a non-success status was answered by a completion
\* call carrying the no-answer template
FetcherFailureAnsweredNoAnswer ==
    /\ \E i \in CallsOf("search") : calls[i].status = "http_error"
    /\ pc = "done"
    /\ Len(calls) = 3
    /\ calls[3] = Call("completion", RagModel, Some(buildNoAnswerPrompt), "ok")
    /\ response = Some(StreamResponse)

(***************************************************************************)
(* C4  an embedding failure falls through to the unaugmented call          *)
(***************************************************************************)

\* C4: once the embedding call has failed, no Content Fetcher call is made and no
\* system prompt is built, every completion call is the unaugmented one, the outer
\* catch is reached only through a failed completion call, and a finished request
\* has made the unaugmented call and returned its stream unless that call failed.
EmbeddingFailureFallsThrough ==
    EmbeddingFailed =>
        /\ CallsOf("search") = {}
        /\ ragOutcome = None
        /\ systemPrompt = None
        /\ \A i \in CallsOf("completion") : calls[i].system = None
        /\ pc \in {"fallback", "outer_catch", "done"}
        /\ pc = "outer_catch" => LastCallIsFailedCompletion
        /\ pc = "done" =>
              /\ CallsOf("completion") # {}
              /\ \/ response = Some([status |-> 200, body |-> "ui-message-stream"])
                 \/ LastCallIsFailedCompletion

\* a request whose embedding failed has been answered by the unaugmented call
EmbeddingFailureStreamed ==
    /\ EmbeddingFailed
    /\ pc = "done"
    /\ Len(calls) = 2
    /\ calls[2] = Call("completion", "gpt-5", None, "ok")
    /\ response = Some(StreamResponse)

(***************************************************************************)
(* C5  every document appears in the prompt, in order                      *)
(***************************************************************************)

\* block i as the claim describes it: the marker, then the four fields verbatim
ExpectedBlock(doc, i) ==
    "[Source " \o NumToString(i) \o "] " \o doc.title
    \o "\nContent: " \o doc.content
    \o "\nURL: " \o doc.url
    \o "\nLast indexed: " \o doc.fetched_at

\* buildSystemPrompt has just returned for a flagged result with documents
StrictCase ==
    /\ pc = "prompt_built"
    /\ ~Get(ragOutcome).threw
    /\ Get(ragOutcome).value # None
    /\ Get(Get(ragOutcome).value).has_results = Some(TRUE)
    /\ Len(DocumentsOf(Get(ragOutcome).value)) >= 1

\* C5: for a result with has_results true and n >= 1 documents, the prompt holds for
\* each i in 1..n the block '[Source i]' with document i's title, content, url and
\* fetched_at verbatim, block i starts before block i+1, and the prompt holds exactly
\* n source markers.
PromptCarriesEveryDocumentInOrder ==
    StrictCase =>
        LET docs == DocumentsOf(Get(ragOutcome).value)
            prompt == Get(systemPrompt)
            at == [i \in 1..Len(docs) |-> IndexOfFrom(prompt, ExpectedBlock(docs[i], i), 1)]
        IN  /\ \A i \in 1..Len(docs) : at[i] > 0
            /\ \A i \in 1..(Len(docs) - 1) : at[i] < at[i + 1]
            /\ CountOf(prompt, "[Source ") = Len(docs)

\* a prompt was built from two different documents
PromptBuiltFromTwoDocuments ==
    /\ StrictCase
    /\ Len(DocumentsOf(Get(ragOutcome).value)) = 2
    /\ DocumentsOf(Get(ragOutcome).value)[1].content
          # DocumentsOf(Get(ragOutcome).value)[2].content
    /\ Includes(Get(systemPrompt), "[Source 2] ")

(***************************************************************************)
(* C7  has_results agrees with the document list                           *)
(***************************************************************************)

\* C7: every non-null result returned by queryRAGSystem has has_results = true
\* exactly when its document list is non-empty, whatever the response body holds.
HasResultsIffDocuments ==
    (IsSome(ragOutcome) /\ ~Get(ragOutcome).threw /\ Get(ragOutcome).value # None) =>
        LET r == Get(Get(ragOutcome).value) IN
        (r.has_results = Some(TRUE)) <=> (IsSome(r.documents) /\ Len(Get(r.documents)) > 0)

(***************************************************************************)
(* C8  a blank query skips retrieval                                       *)
(***************************************************************************)

AllSpace(str) == \A i \in 1..Len(str) : IsSpace(SubSeq(str, i, i))

\* the request parsed and the handler is past the extraction of the query
QueryExtracted ==
    /\ req.parses
    /\ IsSome(req.messages)
    /\ pc \notin {"received", "parsed"}

\* the last message is missing, has no parts, or has no text part
NoTextToExtract ==
    LET ms == Get(req.messages) IN
    \/ ms = <<>>
    \/ ms[Len(ms)].parts = None
    \/ \A i \in 1..Len(Get(ms[Len(ms)].parts)) : Get(ms[Len(ms)].parts)[i].type # "text"

\* C8: when the extracted query is empty or whitespace only, which includes an empty
\* message list and a last message without parts or without text parts, no embedding
\* and no search call is made, no system prompt is built, every completion call is
\* the unaugmented one, and the handler is at or past that call.
BlankQuerySkipsRetrieval ==
    QueryExtracted =>
        /\ NoTextToExtract => userQuery = ""
        /\ AllSpace(userQuery) =>
              /\ CallsOf("embedding") = {}
              /\ CallsOf("search") = {}
              /\ ragOutcome = None
              /\ systemPrompt = None
              /\ \A i \in 1..Len(calls) : calls[i] \in
                    {Call("completion", "gpt-5", None, st) : st \in {"ok", "failed"}}
              /\ pc \in {"fallback", "outer_catch", "done"}
              /\ pc # "fallback" => Len(calls) = 1

\* a request whose query is whitespace, not empty, was answered without retrieval
WhitespaceQueryAnswered ==
    /\ QueryExtracted
    /\ userQuery # ""
    /\ AllSpace(userQuery)
    /\ pc = "done"
    /\ calls = <<Call("completion", "gpt-5", None, "ok")>>
    /\ response = Some(StreamResponse)

(***************************************************************************)
(* C9  a malformed request ends in the error state                         *)
(***************************************************************************)

\* C9: a request whose body does not parse as JSON, or parses without a messages
\* field, makes no embedding, search or completion call and ends with the plain-text
\* response 'Internal Server Error' of status 500.
MalformedRequestIs500 ==
    (~req.parses \/ req.messages = None) =>
        /\ calls = <<>>
        /\ pc \in {"received", "outer_catch", "done"}
        /\ pc = "done" => response = Some([status |-> 500, body |-> "Internal Server Error"])
        /\ pc # "done" => response = None

\* a request that parsed without a messages field has ended
MissingMessagesEnded ==
    /\ req.parses
    /\ req.messages = None
    /\ pc = "done"
    /\ response # None
    /\ Get(response).status = 500

(***************************************************************************)
(* C10  a completion failure surfaces as HTTP 500                          *)
(***************************************************************************)

\* C10: a finished request in which a completion call failed, on the
\* retrieval-augmented path or on the unaugmented one, has the response of status 500.
CompletionFailureIs500 ==
    (pc = "done" /\ \E i \in CallsOf("completion") : calls[i].status = "failed") =>
        response = Some([status |-> 500, body |-> "Internal Server Error"])

(***************************************************************************)
(* C11  the query comes from the most recent user message                  *)
(***************************************************************************)

\* the text-typed segments of the most recent message whose role is user
MostRecentUserTexts(ms) ==
    LET users == {i \in 1..Len(ms) : ms[i].role = "user"} IN
    IF users = {} THEN <<>>
    ELSE LET m == ms[CHOOSE i \in users : \A j \in users : j <= i]
             parts == IF IsSome(m.parts) THEN Get(m.parts) ELSE <<>>
             texts == SelectSeq(parts, LAMBDA part : part.type = "text")
         IN  [i \in 1..Len(texts) |-> TextOf(texts[i])]

\* C11: for every message list, the query extracted is the text-typed segments of
\* the most recent message whose role is user, put together (directly, or with the
\* single space the handler puts between them); the text of an assistant message is
\* never the query, also when that message is the last of the list.
QueryIsMostRecentUserText ==
    QueryExtracted =>
        userQuery \in {Join(MostRecentUserTexts(Get(req.messages)), ""),
                       Join(MostRecentUserTexts(Get(req.messages)), " ")}


(***************************************************************************)
(* C13  the external calls of a request are sequential                     *)
(***************************************************************************)

\* C13: within a request at most one external call is outstanding, and it is the
\* latest one; the search call directly follows an embedding call that returned
\* successfully; a completion call is issued only when every earlier call has
\* returned or failed, and no embedding or search call follows it.
ExternalCallsSequential ==
    /\ \A i \in 1..Len(calls) : calls[i].status = "pending" => i = Len(calls)
    /\ \A i \in CallsOf("embedding") : i = 1
    /\ \A i \in CallsOf("search") :
          /\ i = 2
          /\ calls[1].svc = "embedding"
          /\ calls[1].status = "ok"
    /\ \A i \in CallsOf("completion") :
          /\ calls[i].status # "pending"
          /\ \A j \in 1..(i - 1) : calls[j].status # "pending"
          /\ \A j \in (i + 1)..Len(calls) : calls[j].svc = "completion"
    /\ (Len(calls) > 0 /\ calls[Len(calls)].status = "pending") <=>
          pc \in {"await_embed", "await_fetch", "await_body"}

\* a request has made its three calls one after the other and ended
ThreeCallsInOrder ==
    /\ pc = "done"
    /\ Len(calls) = 3
    /\ calls[1].svc = "embedding" /\ calls[1].status = "ok"
    /\ calls[2].svc = "search" /\ calls[2].status = "returned"
    /\ calls[3].svc = "completion" /\ calls[3].status = "ok"

(***************************************************************************)
(* C14  the URL of a document classifies the content shown with it         *)
(***************************************************************************)

\* C14: every document built by queryRAGSystem of route.ts from a search result,
\* also one whose text is empty, has as url the classification of its own content.
UrlClassifiesShownContent ==
    (variant = "rag_api" /\ IsSome(ragOutcome) /\ IsSome(fetchBody)) =>
        LET docs == DocumentsOf(Get(ragOutcome).value) IN
        \A i \in 1..Len(docs) :
            docs[i].url = convertToRealFIFAUrl(Get(fetchBody).results[i].id, docs[i].content)

=============================================================================
